---------------------------- MODULE Spec2Model ----------------------------
(***************************************************************************)
(* target-vendit: the PrePurchaseOrders and BuyOrders sinks, the request   *)
(* helper of their base class VenditSink, and the VenditAuthenticator,     *)
(* as one state machine.  A run receives records one at a time; a buy      *)
(* order with line_items is split and every line item is submitted as a    *)
(* request of its own (Spec).  The datetime normalisation, the buffering   *)
(* of TargetVendit's sinks and the authenticator are also run on their     *)
(* own (SpecNormalize, SpecBuffered, SpecAuth).                            *)
(***************************************************************************)
EXTENDS Integers, Sequences, FiniteSets, TLC

(***************************************************************************)
(* Bounds of the model.                                                    *)
(***************************************************************************)
MaxRecords == 2
MaxItems == 2
MaxNormalize == 2
MaxOffered == 150
MaxCalls == 3

(***************************************************************************)
(* Python values.  Every value is a record with a type tag t.              *)
(***************************************************************************)
Absent == [t |-> "absent"]
NoneV == [t |-> "none"]
IntV(n) == [t |-> "int", n |-> n]
StrV(s) == [t |-> "str", s |-> s]
ListV(xs) == [t |-> "list", items |-> xs]
DictV(f) == [t |-> "dict", f |-> f]

\* A datetime object: wall-clock time ms (milliseconds, counted from
\* datetime.min) plus us microseconds, and a UTC offset off (milliseconds)
\* when aware.
DatetimeV(ms, us, aware, off) ==
    [t |-> "datetime", ms |-> ms, us |-> us, aware |-> aware, off |-> off]

\* The text of a datetime, by its parts: the wall-clock time, the number of
\* fraction digits written (0, 3 or 6), the separator between date and time,
\* the zone suffix and a trailing blank.
IsoStr(ms, us, frac, sep, tz, pad) ==
    [t |-> "str", s |-> "<datetime>",
     iso |-> [ms |-> ms, us |-> us, frac |-> frac, sep |-> sep, tz |-> tz, pad |-> pad]]

IsIso(v) == v.t = "str" /\ "iso" \in DOMAIN v

\* bool(v)
Truthy(v) ==
    CASE v.t = "absent" -> FALSE
      [] v.t = "none" -> FALSE
      [] v.t = "int" -> v.n # 0
      [] v.t = "str" -> v.s # ""
      [] v.t = "list" -> Len(v.items) > 0
      [] v.t = "dict" -> \E k \in DOMAIN v.f : v.f[k].t # "absent"
      [] OTHER -> TRUE

\* a or b
Or(a, b) == IF Truthy(a) THEN a ELSE b

\* A dict is a function from its keys to values.  (Absent only marks, in the
\* sets of inputs below, an entry that MkDict leaves out.)
Has(d, k) == k \in DOMAIN d /\ d[k].t # "absent"

\* d.get(k)
Get(d, k) == IF Has(d, k) THEN d[k] ELSE NoneV


(***************************************************************************)
(* Results of an operation that may raise: Ok(v) or Raise(exc).            *)
(***************************************************************************)
Ok(v) == [ok |-> TRUE, v |-> v]
Raise(e) == [ok |-> FALSE, exc |-> e]

\* The decimal texts the model uses, with the number each one denotes.
NumStr == ("7" :> 7) @@ ("42" :> 42) @@ ("3" :> 3)

\* int(v): a number as it is, a decimal text parsed, ValueError for any other
\* text, TypeError for a value that is no number and no text.
PyInt(v) ==
    CASE v.t = "int" -> Ok(v.n)
      [] v.t = "str" -> IF v.s \in DOMAIN NumStr THEN Ok(NumStr[v.s]) ELSE Raise("ValueError")
      [] OTHER -> Raise("TypeError")

\* str(v)
PyStr(v) ==
    CASE v.t = "str" -> v
      [] v.t = "int" -> IF \E x \in DOMAIN NumStr : NumStr[x] = v.n
                        THEN StrV(CHOOSE x \in DOMAIN NumStr : NumStr[x] = v.n)
                        ELSE StrV("?")
      [] OTHER -> StrV("?")

(***************************************************************************)
(* Datetime normalisation, sinks.py 53-91 and 188-216.                     *)
(***************************************************************************)
\* The offset, in milliseconds, a zone suffix denotes.
TzOffset(tz) ==
    CASE tz = "+00:00" -> 0
      [] tz = "+02:00" -> 7200000
      [] tz = "-05:00" -> 0 - 18000000
      [] OTHER -> 0

\* dt.isoformat(timespec='milliseconds') + "Z" of a naive datetime: the
\* microseconds below the millisecond are cut.
FormatMillisZ(ms) == IsoStr(ms, 0, 3, "T", "Z", FALSE)

\* datetime.fromisoformat(text): a datetime, or ValueError.  Any separator is
\* accepted; a trailing blank and a text that is no datetime are not.  (A Z
\* never reaches it: both callers replace or remove it first.)
FromIsoformat(v) ==
    IF ~IsIso(v) THEN Raise("ValueError")
    ELSE IF v.iso.pad THEN Raise("ValueError")
    ELSE Ok(DatetimeV(v.iso.ms, v.iso.us, v.iso.tz # "", TzOffset(v.iso.tz)))

\* text.replace('Z', '+00:00')
ReplaceZ(v) ==
    IF IsIso(v) /\ v.iso.tz = "Z" THEN [v EXCEPT !.iso.tz = "+00:00"] ELSE v

\* The clean-up of the manual fallback, lines 72-82: the Z, the surrounding
\* blanks and the zone suffix are removed, a separating blank becomes T.
FallbackClean(v) ==
    IF IsIso(v)
    THEN [v EXCEPT !.iso.tz = "", !.iso.pad = FALSE, !.iso.sep = "T"]
    ELSE v

\* dt.astimezone(timezone.utc).replace(tzinfo=None) when dt is aware
ToUtcNaive(d) == IF d.aware THEN d.ms - d.off ELSE d.ms

\* astimezone raises OverflowError when the time in UTC is before
\* datetime.min (and likewise after datetime.max, which the model leaves out).
OutOfRange(d) == d.aware /\ d.ms - d.off < 0

\* The first two branches from the datetime on: the conversion to UTC, which
\* no except clause guards against OverflowError, and the formatting.
ConvertAndFormat(d) ==
    IF OutOfRange(d) THEN Raise("OverflowError") ELSE Ok(FormatMillisZ(ToUtcNaive(d)))

\* The branch of a text, given the outcomes of the two parsing attempts.
NormalizeText(first, second, now) ==
    IF first.ok THEN ConvertAndFormat(first.v)
    ELSE IF second.ok THEN Ok(FormatMillisZ(second.v.ms))
    ELSE Ok(FormatMillisZ(now))

\* The normalisation of creation_datetime; now is datetime.utcnow().  It gives
\* the value creation_datetime holds afterwards, or the exception raised.
NormalizeDatetime(v, now) ==
    IF v.t = "datetime" THEN ConvertAndFormat(v)
    ELSE IF v.t = "str"
    THEN NormalizeText(FromIsoformat(ReplaceZ(v)), FromIsoformat(FallbackClean(v)), now)
    ELSE IF ~Truthy(v) THEN Ok(FormatMillisZ(now))
    ELSE Ok(v)

\* A text of the form YYYY-MM-DDTHH:MM:SS.mmmZ.
IsCanonical(v) ==
    /\ IsIso(v)
    /\ v.iso.frac = 3 /\ v.iso.us = 0
    /\ v.iso.sep = "T" /\ v.iso.tz = "Z" /\ ~v.iso.pad


(***************************************************************************)
(* Records, line items and payloads are dicts.                             *)
(***************************************************************************)
RecKeys ==
    {"productId", "product_id", "product_remoteId", "amount", "quantity", "qty",
     "creationDatetime", "creation_datetime", "transaction_date", "created_at",
     "optiplyId", "optiply_id", "id",
     "targetSupplierId", "target_supplier_id", "supplier_remoteId",
     "orderReference", "line_items", "items"}

ItemKeys ==
    {"productId", "product_id", "product_remoteId", "amount", "quantity", "qty",
     "creationDatetime", "optiplyId", "targetSupplierId", "officeId",
     "orderReference"}

\* The dict that holds the entries of f, without those marked Absent.
MkDict(keys, f) == [k \in {x \in DOMAIN f \cap keys : f[x].t # "absent"} |-> f[k]]

\* d.get(k1) or d.get(k2) or ... over a list of alias keys
RECURSIVE FirstOf(_, _)
FirstOf(d, ks) ==
    IF Len(ks) = 1 THEN Get(d, ks[1])
    ELSE Or(Get(d, ks[1]), FirstOf(d, Tail(ks)))

\* The aliases of productId with the remote id tried first.
ProductIdKeysRemoteFirst == <<"product_remoteId", "product_id", "productId">>

ProductIdKeys == <<"productId", "product_id", "product_remoteId">>
AmountKeys == <<"amount", "quantity", "qty">>
DatetimeKeys == <<"creationDatetime", "creation_datetime", "transaction_date", "created_at">>
OptiplyIdKeys == <<"optiplyId", "optiply_id", "id">>
SupplierKeys == <<"targetSupplierId", "target_supplier_id", "supplier_remoteId">>

\* A quantity that is missing or 0 counts as 1.
ResolveAmountDefaultOne(d) == Or(FirstOf(d, AmountKeys), IntV(1))

\* The amount of a record or line item (lines 36-40 and 245-249).
ResolveAmount(d) == FirstOf(d, AmountKeys)

\* {"items": [item]}
PayloadOf(item) == MkDict(RecKeys, [items |-> ListV(<<DictV(item)>>)])

(***************************************************************************)
(* PrePurchaseOrders.preprocess_record: None for a record that is skipped, *)
(* the payload otherwise; int() may raise.                                 *)
(***************************************************************************)
PrePurchasePreprocess(record, now) ==
    IF Has(record, "line_items") /\ Truthy(Get(record, "line_items")) THEN Ok(NoneV)
    ELSE
    LET product_id == FirstOf(record, ProductIdKeys)
        amount == ResolveAmount(record)
        creation_datetime == NormalizeDatetime(FirstOf(record, DatetimeKeys), now)
        optiply_id == FirstOf(record, OptiplyIdKeys)
        pid == PyInt(product_id)
        amt == PyInt(amount)
        base == [productId |-> IntV(pid.v), amount |-> IntV(amt.v),
                 creationDatetime |-> creation_datetime.v]
        withId == IF Truthy(optiply_id)
                  THEN base @@ [optiplyId |-> PyStr(optiply_id)] ELSE base
    IN  IF ~Truthy(product_id) THEN Ok(NoneV)
        ELSE IF ~Truthy(amount) THEN Ok(NoneV)
        ELSE IF ~creation_datetime.ok THEN creation_datetime
        ELSE IF ~pid.ok THEN pid
        ELSE IF ~amt.ok THEN amt
        ELSE Ok(DictV(PayloadOf(MkDict(ItemKeys, withId))))

(***************************************************************************)
(* BuyOrders.process_record, the part before the loop (lines 149-230).     *)
(***************************************************************************)
\* The line_items texts the model uses, with what json.loads gives for each.
JsonTexts ==
    ("[]" :> Ok(ListV(<<>>)))
    @@ ("[{\"product_remoteId\": 42, \"quantity\": 3}]" :>
          Ok(ListV(<<DictV(MkDict(ItemKeys,
                 [product_remoteId |-> IntV(42), quantity |-> IntV(3)]))>>)))
    @@ ("{\"productId\": 7, \"amount\": 3}" :>
          Ok(DictV(MkDict(ItemKeys, [productId |-> IntV(7), amount |-> IntV(3)]))))
    @@ ("5" :> Ok(IntV(5)))
    @@ ("null" :> Ok(NoneV))

\* json.loads(text)
JsonLoads(s) == IF s \in DOMAIN JsonTexts THEN JsonTexts[s] ELSE Raise("JSONDecodeError")

\* text.strip() is empty
IsBlank(s) == s \in {"", "   "}

\* What the record is handled as: "direct" (handed on as it is), "skip"
\* (return without emitting) or "split" with the list of line items.
Classify(record) ==
    IF Has(record, "items") /\ ~Has(record, "line_items") THEN [k |-> "direct"]
    ELSE
    LET raw == Get(record, "line_items")
        parsed == IF raw.t = "str" THEN JsonLoads(raw.s) ELSE Ok(raw)
    IN  IF raw.t = "none" THEN [k |-> "skip"]
        ELSE IF raw.t = "str" /\ IsBlank(raw.s) THEN [k |-> "skip"]
        ELSE IF ~parsed.ok THEN [k |-> "skip"]
        ELSE IF ~Truthy(parsed.v) THEN [k |-> "skip"]
        ELSE IF parsed.v.t = "list" THEN [k |-> "split", items |-> parsed.v.items]
        ELSE [k |-> "split", items |-> <<parsed.v>>]

\* The order-level fields every line item of the order shares, given the
\* normalised creation_datetime.
SharedFields(record, creation_datetime) ==
    [creation_datetime |-> creation_datetime,
     optiply_id |-> FirstOf(record, OptiplyIdKeys),
     target_supplier_id |-> FirstOf(record, SupplierKeys)]

(***************************************************************************)
(* One turn of the loop over the line items (lines 233-274): "raise" with  *)
(* the exception, "skip" (continue), or "emit" with the payload.           *)
(***************************************************************************)
LineItemStep(line_item, shared, office_id) ==
    IF line_item.t # "dict" THEN [k |-> "raise", exc |-> "AttributeError"]
    ELSE
    LET product_id == FirstOf(line_item.f, ProductIdKeys)
        amount == ResolveAmount(line_item.f)
        pid == PyInt(product_id)
        amt == PyInt(amount)
        sup == PyInt(shared.target_supplier_id)
        off == PyInt(office_id)
        base == [productId |-> IntV(pid.v), amount |-> IntV(amt.v),
                 creationDatetime |-> shared.creation_datetime]
        withId == IF Truthy(shared.optiply_id)
                  THEN base @@ [optiplyId |-> PyStr(shared.optiply_id)] ELSE base
        withSup == IF Truthy(shared.target_supplier_id)
                   THEN withId @@ [targetSupplierId |-> IntV(sup.v)] ELSE withId
        withOff == IF office_id.t # "none"
                   THEN withSup @@ [officeId |-> IntV(off.v)] ELSE withSup
    IN  IF ~Truthy(product_id) THEN [k |-> "skip"]
        ELSE IF ~Truthy(amount) THEN [k |-> "skip"]
        ELSE IF ~pid.ok THEN [k |-> "raise", exc |-> pid.exc]
        ELSE IF ~amt.ok THEN [k |-> "raise", exc |-> amt.exc]
        ELSE IF Truthy(shared.target_supplier_id) /\ ~sup.ok THEN [k |-> "raise", exc |-> sup.exc]
        ELSE IF office_id.t # "none" /\ ~off.ok THEN [k |-> "raise", exc |-> off.exc]
        ELSE [k |-> "emit", payload |-> PayloadOf(MkDict(ItemKeys, withOff))]


(***************************************************************************)
(* VenditAuthenticator (auth.py).  Its state is the pair of cached fields  *)
(* _token and _api_key, None until resolved.  Every operation gives its    *)
(* value or exception with the authenticator after the call (auth) and     *)
(* whether a token request was made (posted).                              *)
(***************************************************************************)
ConfigKeys ==
    {"api_key", "vendit_api_key", "token", "username", "password",
     "default_export_buyOrder_warehouseId"}

\* VenditAuthenticator.__init__
NewAuthenticator == [token |-> NoneV, api_key |-> NoneV]

AuthOk(v, auth, posted) == [ok |-> TRUE, v |-> v, auth |-> auth, posted |-> posted]
AuthRaise(auth, posted) == [ok |-> FALSE, exc |-> "ValueError", auth |-> auth, posted |-> posted]

\* The api_key property once the configured key is read: it is stored before
\* it is checked.
ApiKeyResolve(auth, key) ==
    IF ~Truthy(key) THEN AuthRaise([auth EXCEPT !.api_key = key], FALSE)
    ELSE AuthOk(key, [auth EXCEPT !.api_key = key], FALSE)

\* The api_key property.
ApiKey(auth, config) ==
    IF auth.api_key.t # "none" THEN AuthOk(auth.api_key, auth, FALSE)
    ELSE ApiKeyResolve(auth, Or(Get(config, "api_key"), Get(config, "vendit_api_key")))

\* _get_oauth_token after the credentials check, key being self.api_key.
\* oauth is what the token endpoint answers: "fail" for a request that fails
\* or an answer without a token, "token" with the value of the token field.
OAuthPost(key, oauth) ==
    IF ~key.ok THEN key
    ELSE IF oauth.k = "fail" THEN AuthRaise(key.auth, TRUE)
    ELSE AuthOk(oauth.v, key.auth, TRUE)

\* _get_oauth_token
GetOAuthToken(auth, config, oauth) ==
    IF ~Truthy(Get(config, "username")) \/ ~Truthy(Get(config, "password"))
    THEN AuthRaise(auth, FALSE)
    ELSE OAuthPost(ApiKey(auth, config), oauth)

\* self._token = self._get_oauth_token()
StoreToken(got) ==
    IF ~got.ok THEN got ELSE [got EXCEPT !.auth.token = got.v]

\* The token property once the configured token is read: it is stored before
\* it is checked.
TokenResolve(auth, given, config, oauth) ==
    IF Truthy(given) THEN AuthOk(given, [auth EXCEPT !.token = given], FALSE)
    ELSE StoreToken(GetOAuthToken([auth EXCEPT !.token = given], config, oauth))

\* The token property without its cache: resolved anew at every call.
TokenUncached(auth, config, oauth) ==
    TokenResolve(auth, Get(config, "token"), config, oauth)

\* The token property.
Token(auth, config, oauth) ==
    IF auth.token.t # "none" THEN AuthOk(auth.token, auth, FALSE)
    ELSE TokenResolve(auth, Get(config, "token"), config, oauth)

\* The headers, given the outcomes of self.token and of self.api_key.
HeadersOf(tok, key) ==
    IF ~key.ok THEN AuthRaise(key.auth, tok.posted)
    ELSE AuthOk([Token |-> tok.v, ApiKey |-> key.v], key.auth, tok.posted)

\* get_headers once self.token is evaluated: ApiKey comes after Token.
HeadersAfterToken(tok, config) ==
    IF ~tok.ok THEN tok ELSE HeadersOf(tok, ApiKey(tok.auth, config))

\* get_headers
GetHeaders(auth, config, oauth) == HeadersAfterToken(Token(auth, config, oauth), config)

(***************************************************************************)
(* VenditSink.request_api (client.py 68-108).  transport is what the PUT   *)
(* does: "exc" (requests raises), "rejected" (validate_response raises) or *)
(* "resp" with the status and the body of a response that passes.  sent    *)
(* tells whether the PUT was made.                                         *)
(***************************************************************************)
ReqRaise(exc, msg, hdr, sent) ==
    [ok |-> FALSE, exc |-> exc, msg |-> StrV(msg), auth |-> hdr.auth,
     posted |-> hdr.posted, sent |-> sent]

\* request_api from the headers on.
SendRequest(hdr, transport) ==
    IF ~hdr.ok THEN ReqRaise(hdr.exc, "missing credentials", hdr, FALSE)
    ELSE IF transport.k = "exc" THEN ReqRaise("FatalAPIError", "request failed", hdr, TRUE)
    ELSE IF transport.k = "rejected" THEN ReqRaise("FatalAPIError", "response rejected", hdr, TRUE)
    ELSE [ok |-> TRUE, v |-> transport, auth |-> hdr.auth, posted |-> hdr.posted,
          sent |-> TRUE]

\* request_api
RequestApi(auth, config, oauth, transport) ==
    SendRequest(GetHeaders(auth, config, oauth), transport)

\* response_data.get("id"), None when the body is no mapping or no JSON.
BodyId(body) == IF body.t = "dict" THEN Get(body.f, "id") ELSE NoneV

\* The id of the body alone, without the fallback.
IdWithoutFallback(fromBody, items) == fromBody

\* The fallback of lines 135-136 and 300-301.
IdOrFallback(fromBody, items) ==
    IF ~Truthy(fromBody) /\ Truthy(items) /\ Len(items.items) > 0
    THEN Get(items.items[1].f, "optiplyId")
    ELSE fromBody

\* Lines 125-136 and 290-301: the id of the result.
ResponseId(response, record) ==
    IF response.status \notin {200, 201, 204} THEN NoneV
    ELSE IdOrFallback(BodyId(response.body), Get(record, "items"))

\* The result of upsert_record: raised, or (id, success, state_updates) with
\* the error of state_updates (None when it has none).
Returned(id, success, error, r) ==
    [raised |-> FALSE, id |-> id, success |-> success, error |-> error,
     auth |-> r.auth, posted |-> r.posted, sent |-> r.sent]

\* No request: the authenticator is as it was.
NotCalled(auth) == [auth |-> auth, posted |-> FALSE, sent |-> FALSE]

\* PrePurchaseOrders.upsert_record from the outcome r of request_api on.
PrePurchaseResult(record, r) ==
    IF ~r.ok
    THEN [raised |-> TRUE, exc |-> r.exc, auth |-> r.auth, posted |-> r.posted,
          sent |-> r.sent]
    ELSE Returned(ResponseId(r.v, record), TRUE, NoneV, r)

\* PrePurchaseOrders.upsert_record (lines 112-138).
PrePurchaseUpsert(record, auth, config, oauth, transport) ==
    IF ~Truthy(DictV(record)) THEN Returned(NoneV, FALSE, NoneV, NotCalled(auth))
    ELSE PrePurchaseResult(record, RequestApi(auth, config, oauth, transport))

\* BuyOrders.upsert_record from the outcome r of request_api on: both
\* except clauses give (None, False, {"error": str(e)}).
BuyOrdersResult(record, r) ==
    IF ~r.ok THEN Returned(NoneV, FALSE, r.msg, r)
    ELSE Returned(ResponseId(r.v, record), TRUE, NoneV, r)

\* BuyOrders.upsert_record (lines 276-311).
BuyOrdersUpsert(record, auth, config, oauth, transport) ==
    IF ~Truthy(DictV(record)) THEN Returned(NoneV, FALSE, NoneV, NotCalled(auth))
    ELSE BuyOrdersResult(record, RequestApi(auth, config, oauth, transport))

(***************************************************************************)
(* The inputs of the model.                                                *)
(***************************************************************************)
Rec(f) == MkDict(RecKeys, f)
Item(f) == DictV(MkDict(ItemKeys, f))
Cfg(f) == MkDict(ConfigKeys, f)

\* Configurations: complete with a token, complete with OAuth credentials,
\* without an api key, without a token and without OAuth credentials, and
\* with a default office id.
Configs ==
    {Cfg([api_key |-> StrV("K"), token |-> StrV("T0")]),
     Cfg([api_key |-> StrV("K"), token |-> StrV("T0"),
          default_export_buyOrder_warehouseId |-> IntV(12)]),
     Cfg([vendit_api_key |-> StrV("K"), username |-> StrV("u"), password |-> StrV("p")]),
     Cfg([token |-> StrV("T0")]),
     Cfg([api_key |-> StrV("K")])}

\* What the token endpoint answers.
OAuthOutcomes == {[k |-> "fail"], [k |-> "token", v |-> StrV("T1")]}

\* What the PUT does.
Body(f) == DictV(MkDict({"id"}, f))
EmptyBody == DictV(MkDict({"id"}, [id |-> Absent]))
Transports ==
    {[k |-> "exc"], [k |-> "rejected"],
     [k |-> "resp", status |-> 200, body |-> Body([id |-> StrV("R1")])],
     [k |-> "resp", status |-> 200, body |-> Body([id |-> IntV(0)])],
     [k |-> "resp", status |-> 201, body |-> EmptyBody],
     [k |-> "resp", status |-> 204, body |-> [t |-> "invalid"]],
     [k |-> "resp", status |-> 202, body |-> Body([id |-> StrV("R1")])]}

\* datetime.utcnow()
NowSet == {50000000, 50000001}

\* The readings of the clock that tell apart the outcomes of normalising v.
NowChoices(v) ==
    IF \A a, b \in NowSet : NormalizeDatetime(v, a) = NormalizeDatetime(v, b)
    THEN {CHOOSE n \in NowSet : TRUE}
    ELSE NowSet

\* Values of a datetime field.
DatetimeValues ==
    {Absent,
     DatetimeV(48951885, 123, TRUE, 7200000),
     IsoStr(48951885, 123, 6, "T", "+02:00", FALSE),
     IsoStr(41751000, 0, 0, "T", "Z", FALSE),
     IsoStr(48951885, 0, 3, " ", "+02:00", TRUE),
     StrV("not a date"),
     IntV(1692358551)}

\* Line items of a buy order.
LineItemSet ==
    {Item([productId |-> IntV(1), amount |-> IntV(2)]),
     Item([product_remoteId |-> IntV(42), quantity |-> IntV(3),
           orderReference |-> StrV("REF")]),
     Item([productId |-> IntV(3)]),
     Item([productId |-> IntV(4), amount |-> IntV(0)]),
     Item([productId |-> IntV(4), amount |-> IntV(0), qty |-> IntV(5)]),
     Item([productId |-> StrV("abc"), amount |-> IntV(1)]),
     Item([product_id |-> StrV("7"), amount |-> StrV("3")]),
     IntV(5)}

RECURSIVE SeqsUpTo(_, _)
SeqsUpTo(S, n) ==
    IF n = 0 THEN {<<>>}
    ELSE LET shorter == SeqsUpTo(S, n - 1)
         IN  shorter \cup {Append(q, x) : q \in {p \in shorter : Len(p) = n - 1}, x \in S}

\* Values of line_items that are not a list of line items.
OtherLineItems ==
    {NoneV, StrV(""), StrV("   "), StrV("not json"), StrV("[]"), StrV("5"), StrV("null"),
     StrV("[{\"product_remoteId\": 42, \"quantity\": 3}]"),
     StrV("{\"productId\": 7, \"amount\": 3}"),
     Item([productId |-> IntV(1), amount |-> IntV(2)]),
     IntV(5), IntV(0)}

\* The order-level fields of a buy order.
Headers ==
    {[creationDatetime |-> DatetimeV(48951885, 123, TRUE, 7200000),
      optiplyId |-> IntV(42), targetSupplierId |-> IntV(7)],
     [created_at |-> StrV("not a date"), supplier_remoteId |-> StrV("7")],
     [creationDatetime |-> IntV(1692358551), id |-> StrV("ORD-1")]}

\* The header of the round-trip example.
MainHeader ==
    [transaction_date |-> IsoStr(48951885, 123, 6, "T", "+02:00", FALSE),
     id |-> StrV("ORD-1")]

\* The record of the round-trip example: its line_items is a JSON text.
ExampleRecord ==
    Rec(MainHeader @@
        [line_items |-> StrV("[{\"product_remoteId\": 42, \"quantity\": 3}]")])

CompositeRecords ==
    {Rec(MainHeader @@ [line_items |-> ListV(q)]) : q \in SeqsUpTo(LineItemSet, MaxItems)}
    \cup {ExampleRecord}
    \cup {Rec(h @@ [line_items |-> ListV(<<x>>)]) :
             h \in Headers,
             x \in {Item([productId |-> IntV(1), amount |-> IntV(2)]),
                    Item([product_id |-> StrV("7"), amount |-> StrV("3")])}}
    \cup {Rec([id |-> StrV("ORD-1"), line_items |-> v]) : v \in OtherLineItems}

\* Records with the fields of one item, without line_items.
DirectRecords ==
    {Rec([productId |-> p, product_remoteId |-> pr, amount |-> a, quantity |-> q,
          orderReference |-> StrV("REF")]) :
        p \in {Absent, IntV(1), StrV("abc")}, pr \in {Absent, StrV("7")},
        a \in {Absent, IntV(0), IntV(2), StrV("x")}, q \in {Absent, IntV(5)}}
    \cup {Rec([productId |-> IntV(1), amount |-> IntV(2), creationDatetime |-> d,
               optiply_id |-> o]) :
            d \in DatetimeValues, o \in {Absent, StrV("ORD-1"), IntV(42)}}

\* Records that already hold an items collection.
PrebuiltItems ==
    {ListV(<<Item([productId |-> IntV(1), amount |-> IntV(2),
                   creationDatetime |-> FormatMillisZ(41751000), optiplyId |-> o])>>) :
        o \in {Absent, StrV("ORD-1")}}

PrebuiltRecords ==
    {Rec([items |-> i, line_items |-> v]) :
        i \in PrebuiltItems,
        v \in {Absent, ListV(<<>>), StrV(""),
               ListV(<<Item([productId |-> IntV(1), amount |-> IntV(2)])>>)}}

Records == CompositeRecords \cup DirectRecords \cup PrebuiltRecords

Sinks == {"PrePurchaseOrders", "BuyOrders"}

\* batch_size of the configuration, when it is not given.
DefaultBatchSize == 100


(***************************************************************************)
(* The state of a run.                                                     *)
(***************************************************************************)
VARIABLES
    config,     \* the configuration of the target
    auth,       \* the authenticator of each sink: its cached _token and _api_key
    pc,         \* "idle", "split" (inside the loop over line items) or "raised"
    nrec,       \* records received so far
    cur,        \* the sink and the record being handled
    shared,     \* the order-level fields of the buy order being split
    queue,      \* the line items of the loop that are still to come
    emitted,    \* the payloads of cur handed on to submission, in order
    attempts,   \* the upsert_record calls made for cur, in order
    last,       \* the last upsert_record call made for cur and its result
    error,      \* where an exception that left the sink was raised
    sent,       \* PUT requests sent in the run
    posted,     \* token requests made in the run
    failedBefore, \* a submission of the run has failed
    norm,       \* a value of creation_datetime and what normalising it gave
    batch,      \* the buffering sinks of a target: their batches and flushes
    calls       \* the http_headers calls made on their own, with their outcomes

vars ==
    <<config, auth, pc, nrec, cur, shared, queue, emitted, attempts, last, error,
      sent, posted, failedBefore, norm, batch, calls>>

\* What a run of the sinks leaves alone.
aside == <<norm, batch, calls>>

\* The state of the sinks that submit each record at once.
run ==
    <<config, auth, pc, nrec, cur, shared, queue, emitted, attempts, last, error,
      sent, posted, failedBefore>>

NoCall == [called |-> FALSE]
NoError == [where |-> "none"]
NoShared == [creation_datetime |-> NoneV, optiply_id |-> NoneV, target_supplier_id |-> NoneV]

\* No value is being normalised.
NoNorm == [x |-> NoneV, out |-> <<>>, raised |-> FALSE]

\* TargetVendit.__init__: no sink yet (self._sinks = {}).
NoSinks == <<>>

\* A target with maximum batch size max and no sink.
NewTarget(max) == [phase |-> "open", max |-> max, sinks |-> NoSinks]

\* The sinks after construction, before the first record.
RunStart ==
    /\ auth = [s \in Sinks |-> NewAuthenticator]
    /\ pc = "idle"
    /\ nrec = 0
    /\ cur = [sink |-> "none"]
    /\ shared = NoShared
    /\ queue = <<>>
    /\ emitted = <<>>
    /\ attempts = <<>>
    /\ last = NoCall
    /\ error = NoError
    /\ sent = 0
    /\ posted = 0
    /\ failedBefore = FALSE

Init ==
    /\ config \in Configs
    /\ RunStart
    /\ norm = NoNorm
    /\ batch = NewTarget(DefaultBatchSize)
    /\ calls = <<>>

\* upsert_record of the sink.
Upsert(sink, record, oauth, transport) ==
    IF sink = "PrePurchaseOrders"
    THEN PrePurchaseUpsert(record, auth[sink], config, oauth, transport)
    ELSE BuyOrdersUpsert(record, auth[sink], config, oauth, transport)

\* The answers of the token endpoint that tell apart the outcomes of
\* get_headers, and the outcomes of the PUT when there are headers to send it.
OAuthChoices(a, c) ==
    IF \A x, y \in OAuthOutcomes : GetHeaders(a, c, x) = GetHeaders(a, c, y)
    THEN {CHOOSE x \in OAuthOutcomes : TRUE}
    ELSE OAuthOutcomes

TransportChoices(hdr) == IF hdr.ok THEN Transports ELSE {CHOOSE x \in Transports : TRUE}

\* The state after an upsert_record call with result res.
AfterUpsert(sink, record, idx, before, more, transport, res) ==
    /\ auth' = [auth EXCEPT ![sink] = res.auth]
    /\ last' = [called |-> TRUE, sink |-> sink, record |-> record,
                transport |-> IF res.sent THEN transport ELSE [k |-> "unsent"],
                res |-> res]
    /\ attempts' = Append(before, [idx |-> idx, ok |-> ~res.raised /\ res.success])
    /\ sent' = sent + (IF res.sent THEN 1 ELSE 0)
    /\ posted' = posted + (IF res.posted THEN 1 ELSE 0)
    /\ failedBefore' = (failedBefore \/ res.raised \/ ~res.success)
    /\ error' = IF res.raised THEN [where |-> "upsert_record", exc |-> res.exc]
                ELSE NoError
    /\ pc' = IF res.raised THEN "raised" ELSE IF more THEN "split" ELSE "idle"

\* VenditSink.process_record from the preprocessed record on (client.py 61-66):
\* the record is handed to upsert_record once, and an exception of
\* upsert_record leaves the sink.  idx is the place of the line item the
\* record was built from, before is the attempts made so far for cur.
Submit(sink, record, idx, before, more) ==
    \E oauth \in OAuthChoices(auth[sink], config) :
    \E transport \in TransportChoices(GetHeaders(auth[sink], config, oauth)) :
        AfterUpsert(sink, record, idx, before, more, transport,
                    Upsert(sink, record, oauth, transport))

\* Nothing is submitted.
NoSubmit(before) ==
    /\ attempts' = before
    /\ UNCHANGED <<auth, sent, posted, failedBefore>>

\* A record arrives at the PrePurchaseOrders sink: VenditSink.process_record
\* with PrePurchaseOrders.preprocess_record and upsert_record.
PrePurchaseProcessRecord(record) ==
    \E now \in NowChoices(FirstOf(record, DatetimeKeys)) :
    LET pre == PrePurchasePreprocess(record, now)
    IN  /\ pc = "idle"
        /\ nrec < MaxRecords
        /\ nrec' = nrec + 1
        /\ cur' = [sink |-> "PrePurchaseOrders", record |-> record]
        /\ UNCHANGED <<config, shared, queue>>
        /\ UNCHANGED aside
        /\ IF ~pre.ok
           THEN /\ pc' = "raised"
                /\ error' = [where |-> "preprocess_record", exc |-> pre.exc]
                /\ emitted' = <<>>
                /\ last' = NoCall
                /\ NoSubmit(<<>>)
           ELSE IF pre.v.t = "none"
           THEN /\ pc' = "idle"
                /\ error' = NoError
                /\ emitted' = <<>>
                /\ last' = NoCall
                /\ NoSubmit(<<>>)
           ELSE /\ emitted' = <<pre.v.f>>
                /\ Submit("PrePurchaseOrders", pre.v.f, 1, <<>>, FALSE)

\* A record arrives at the BuyOrders sink: BuyOrders.process_record up to the
\* loop.  A record handled directly is handed on as it is
\* (BuyOrders.preprocess_record returns it unchanged).
BuyOrdersProcessRecord(record) ==
    \E now \in NowChoices(FirstOf(record, DatetimeKeys)) :
    LET c == Classify(record)
        normalized == NormalizeDatetime(FirstOf(record, DatetimeKeys), now)
    IN  /\ pc = "idle"
        /\ nrec < MaxRecords
        /\ nrec' = nrec + 1
        /\ cur' = [sink |-> "BuyOrders", record |-> record]
        /\ UNCHANGED config
        /\ UNCHANGED aside
        /\ IF c.k = "direct"
           THEN /\ emitted' = <<record>>
                /\ UNCHANGED <<shared, queue>>
                /\ Submit("BuyOrders", record, 1, <<>>, FALSE)
           ELSE IF c.k = "skip"
           THEN /\ pc' = "idle"
                /\ error' = NoError
                /\ emitted' = <<>>
                /\ last' = NoCall
                /\ UNCHANGED <<shared, queue>>
                /\ NoSubmit(<<>>)
           ELSE IF ~normalized.ok
           THEN /\ pc' = "raised"
                /\ error' = [where |-> "normalize", exc |-> normalized.exc]
                /\ emitted' = <<>>
                /\ last' = NoCall
                /\ UNCHANGED <<shared, queue>>
                /\ NoSubmit(<<>>)
           ELSE /\ pc' = "split"
                /\ error' = NoError
                /\ emitted' = <<>>
                /\ last' = NoCall
                /\ shared' = SharedFields(record, normalized.v)
                /\ queue' = c.items
                /\ NoSubmit(<<>>)

\* The place, in the list of line items of cur, of the head of the queue.
Position == Len(Classify(cur.record).items) - Len(queue) + 1

\* One turn of the loop of BuyOrders.process_record over the line items.
BuyOrdersLineItem ==
    LET step == LineItemStep(Head(queue), shared,
                             Get(config, "default_export_buyOrder_warehouseId"))
        more == Len(queue) > 1
    IN  /\ pc = "split"
        /\ UNCHANGED <<config, nrec, cur, shared>>
        /\ UNCHANGED aside
        /\ IF step.k = "raise"
           THEN /\ pc' = "raised"
                /\ error' = [where |-> "process_record", exc |-> step.exc]
                /\ UNCHANGED <<queue, emitted, last>>
                /\ NoSubmit(attempts)
           ELSE IF step.k = "skip"
           THEN /\ pc' = IF more THEN "split" ELSE "idle"
                /\ queue' = Tail(queue)
                /\ UNCHANGED <<emitted, last, error>>
                /\ NoSubmit(attempts)
           ELSE /\ queue' = Tail(queue)
                /\ emitted' = Append(emitted, step.payload)
                /\ Submit("BuyOrders", step.payload, Position, attempts, more)

Next ==
    \/ \E r \in Records : PrePurchaseProcessRecord(r)
    \/ \E r \in Records : BuyOrdersProcessRecord(r)
    \/ BuyOrdersLineItem

Spec == Init /\ [][Next]_vars

(***************************************************************************)
(* The normalisation of creation_datetime on its own (sinks.py 53-91 and   *)
(* 188-216): a value is normalised, and what that gave is normalised       *)
(* again.                                                                  *)
(***************************************************************************)
\* The texts of a datetime: with no, three or six fraction digits, with T or
\* a blank between date and time, with and without a zone, with and without
\* a trailing blank.  3600000 is the first hour after datetime.min.
IsoTexts ==
    {IsoStr(w.ms, w.us, w.frac, sep, tz, pad) :
        w \in {[ms |-> 3600000, us |-> 0, frac |-> 0],
               [ms |-> 41751000, us |-> 0, frac |-> 0],
               [ms |-> 3600000, us |-> 0, frac |-> 3],
               [ms |-> 48951885, us |-> 0, frac |-> 3],
               [ms |-> 48951885, us |-> 123, frac |-> 6]},
        sep \in {"T", " "},
        tz \in {"", "Z", "+00:00", "+02:00", "-05:00"},
        pad \in BOOLEAN}

\* The datetime objects: naive and aware.
DatetimeObjects ==
    {DatetimeV(ms, us, z.aware, z.off) :
        ms \in {3600000, 48951885}, us \in {0, 123},
        z \in {[aware |-> FALSE, off |-> 0], [aware |-> TRUE, off |-> 0],
               [aware |-> TRUE, off |-> 7200000],
               [aware |-> TRUE, off |-> 0 - 18000000]}}

\* The values the normalisation is documented to accept: a datetime, a text,
\* nothing.
NormalizeInputs ==
    IsoTexts \cup DatetimeObjects \cup {StrV("not a date"), StrV(""), NoneV}

InitNormalize ==
    /\ config = Cfg([api_key |-> StrV("K"), token |-> StrV("T0")])
    /\ RunStart
    /\ norm \in {[x |-> v, out |-> <<>>, raised |-> FALSE] : v \in NormalizeInputs}
    /\ batch = NewTarget(DefaultBatchSize)
    /\ calls = <<>>

\* The value the next normalisation is given: the input, then the output of
\* the normalisation before.
NormalizeArg == IF norm.out = <<>> THEN norm.x ELSE norm.out[Len(norm.out)]

\* The state after a normalisation with outcome r.
AfterNormalize(r) ==
    norm' = IF r.ok THEN [norm EXCEPT !.out = Append(@, r.v)]
            ELSE [norm EXCEPT !.raised = TRUE]

\* One run of lines 53-91.
Normalize ==
    /\ ~norm.raised
    /\ Len(norm.out) < MaxNormalize
    /\ \E now \in NowChoices(NormalizeArg) :
          AfterNormalize(NormalizeDatetime(NormalizeArg, now))
    /\ UNCHANGED run
    /\ UNCHANGED <<batch, calls>>

NextNormalize == Normalize

SpecNormalize == InitNormalize /\ [][NextNormalize]_vars


(***************************************************************************)
(* The buffered mode.  TargetVendit (target.py) hands every record to the  *)
(* sink of its stream, a PrePurchaseOrdersSink, and flushes the sinks with *)
(* process_batch and clean_up.  The class is not among the sources; its    *)
(* process_record, process_batch and clean_up follow section 4.5 of the    *)
(* specification: a record is appended to the batch, the batch is          *)
(* submitted in one request when its length reaches the maximum, and a     *)
(* flush submits what is left and empties the batch.                       *)
(***************************************************************************)
\* The streams get_sink knows.
Streams == {"BuyOrders", "pre_purchase_orders"}

\* The stream names of the messages: the known ones, one that is unknown and
\* a missing one.
StreamNames == Streams \cup {"other", ""}

\* The values of batch_size the model runs with.
BatchSizes == {2, DefaultBatchSize}

\* PrePurchaseOrdersSink.__init__: an empty batch.  offered counts the records
\* handed to the sink, auto the flushes the sink made by itself, explicit the
\* requests of flushes asked of it, submitted the records it submitted.
NewSink == [buf |-> <<>>, offered |-> 0, auto |-> 0, explicit |-> 0, submitted |-> 0]

\* The batch is full.
ReachedMax(n, max) == n >= max

\* The sink after it submitted the batch recs by itself.
AutoFlushed(sink, recs) ==
    [sink EXCEPT !.buf = <<>>, !.offered = @ + 1, !.auto = @ + 1,
                 !.submitted = @ + Len(recs)]

\* sink.process_record: the record (the next of its stream) is appended; a
\* full batch is submitted in one request and emptied.
Offer(sink, max) ==
    IF ReachedMax(Len(sink.buf) + 1, max)
    THEN AutoFlushed(sink, Append(sink.buf, sink.offered + 1))
    ELSE [sink EXCEPT !.buf = Append(@, sink.offered + 1), !.offered = @ + 1]

\* sink.process_batch and sink.clean_up: what is left is submitted in one
\* request, nothing is sent for an empty batch; the batch is empty afterwards
\* whether the request succeeded or not.
Flush(sink) ==
    IF sink.buf = <<>> THEN sink
    ELSE [sink EXCEPT !.buf = <<>>, !.explicit = @ + 1, !.submitted = @ + Len(sink.buf)]

\* The first sink alone.
FirstSinkOf(sinks) ==
    IF DOMAIN sinks = {} THEN {} ELSE {CHOOSE x \in DOMAIN sinks : TRUE}

\* self._sinks.values()
SinksOf(sinks) == DOMAIN sinks

\* for sink in self._sinks.values(): flush it
FlushEach(sinks, which) == [x \in DOMAIN sinks |-> IF x \in which THEN Flush(sinks[x]) ELSE sinks[x]]

\* The sink of the stream, created when the stream has none (lines 45-53).
SinkOf(sinks, stream) == IF stream \in DOMAIN sinks THEN sinks[stream] ELSE NewSink

\* Records received by the sinks so far.
OfferedTo(sinks, stream) == IF stream \in DOMAIN sinks THEN sinks[stream].offered ELSE 0
TotalOffered == OfferedTo(batch.sinks, "BuyOrders") + OfferedTo(batch.sinks, "pre_purchase_orders")

InitBuffered ==
    /\ config = Cfg([api_key |-> StrV("K"), token |-> StrV("T0")])
    /\ RunStart
    /\ norm = NoNorm
    /\ batch \in {NewTarget(max) : max \in BatchSizes}
    /\ calls = <<>>

\* TargetVendit.process_record: a record without a stream name is skipped, an
\* unknown stream raises, the sink of a known stream gets the record.
TargetProcessRecord(stream) ==
    /\ batch.phase = "open"
    /\ TotalOffered < MaxOffered
    /\ batch' =
          IF stream = "" THEN batch
          ELSE IF stream \notin Streams THEN [batch EXCEPT !.phase = "raised"]
          ELSE [batch EXCEPT !.sinks =
                   [x \in DOMAIN batch.sinks \cup {stream} |->
                       IF x = stream THEN Offer(SinkOf(batch.sinks, stream), batch.max)
                       ELSE batch.sinks[x]]]
    /\ UNCHANGED run
    /\ UNCHANGED <<norm, calls>>

\* TargetVendit.process_batch, at the end of the stream.
TargetProcessBatch ==
    /\ batch.phase = "open"
    /\ batch' = [batch EXCEPT !.phase = "drained",
                              !.sinks = FlushEach(batch.sinks, SinksOf(batch.sinks))]
    /\ UNCHANGED run
    /\ UNCHANGED <<norm, calls>>

\* TargetVendit.clean_up
TargetCleanUp ==
    /\ batch.phase \in {"open", "drained"}
    /\ batch' = [batch EXCEPT !.phase = "closed",
                              !.sinks = FlushEach(batch.sinks, SinksOf(batch.sinks))]
    /\ UNCHANGED run
    /\ UNCHANGED <<norm, calls>>

NextBuffered ==
    \/ \E stream \in StreamNames : TargetProcessRecord(stream)
    \/ TargetProcessBatch
    \/ TargetCleanUp

SpecBuffered == InitBuffered /\ [][NextBuffered]_vars

(***************************************************************************)
(* The authenticator on its own: http_headers (client.py 42-50) is called  *)
(* on the sinks, any number of times, each sink with the authenticator     *)
(* its __init__ made.                                                      *)
(***************************************************************************)
\* Configurations: each key absent, empty or set; the OAuth credentials
\* absent or set.
AuthConfigs ==
    {Cfg([api_key |-> a, vendit_api_key |-> v, token |-> t,
          username |-> c.username, password |-> c.password]) :
        a \in {Absent, StrV(""), StrV("K")},
        v \in {Absent, StrV(""), StrV("K2")},
        t \in {Absent, StrV(""), StrV("T0")},
        c \in {[username |-> Absent, password |-> Absent],
               [username |-> StrV("u"), password |-> StrV("p")]}}

\* What the token endpoint answers: a failure, a token (another one each
\* time), an empty token, a null token.
AuthOAuthOutcomes ==
    OAuthOutcomes \cup {[k |-> "token", v |-> StrV("T2")], [k |-> "token", v |-> StrV("")],
                        [k |-> "token", v |-> NoneV]}

InitAuth ==
    /\ config \in AuthConfigs
    /\ RunStart
    /\ norm = NoNorm
    /\ batch = NewTarget(DefaultBatchSize)
    /\ calls = <<>>

\* What a call of http_headers on the sink with outcome r is recorded as: has
\* tells whether the authenticator holds a token after the call.
CallOf(sink, r) ==
    [sink |-> sink, ok |-> r.ok, v |-> IF r.ok THEN r.v ELSE NoneV,
     posted |-> r.posted, has |-> r.auth.token # NoneV]

\* The state after a call of http_headers on the sink with outcome r.
AfterHeaders(sink, r) ==
    /\ auth' = [auth EXCEPT ![sink] = r.auth]
    /\ posted' = posted + (IF r.posted THEN 1 ELSE 0)
    /\ calls' = Append(calls, CallOf(sink, r))

\* VenditSink.http_headers
HttpHeaders(sink) ==
    /\ Len(calls) < MaxCalls
    /\ \E oauth \in AuthOAuthOutcomes :
          AfterHeaders(sink, GetHeaders(auth[sink], config, oauth))
    /\ UNCHANGED <<config, pc, nrec, cur, shared, queue, emitted, attempts, last,
                   error, sent, failedBefore>>
    /\ UNCHANGED <<norm, batch>>

NextAuth == \E sink \in Sinks : HttpHeaders(sink)

SpecAuth == InitAuth /\ [][NextAuth]_vars

(***************************************************************************)
(* Notions the properties are stated with.                                 *)
(***************************************************************************)
\* The line items of a record whose line_items is a list.
ListItems(record) ==
    IF Has(record, "line_items") /\ record.line_items.t = "list"
    THEN record.line_items.items ELSE <<>>

\* The line item resolves a non-empty productId and a non-empty amount.
Resolves(li) ==
    /\ li.t = "dict"
    /\ Truthy(FirstOf(li.f, ProductIdKeys))
    /\ Truthy(FirstOf(li.f, AmountKeys))

\* The places, in order, of the line items from place i on that resolve both.
RECURSIVE Surviving(_, _)
Surviving(items, i) ==
    IF i > Len(items) THEN <<>>
    ELSE (IF Resolves(items[i]) THEN <<i>> ELSE <<>>) \o Surviving(items, i + 1)

\* The record being handled is a buy order with a list of line items whose
\* handling has ended.
SplitEnded ==
    /\ cur.sink = "BuyOrders"
    /\ pc # "split"
    /\ Len(ListItems(cur.record)) > 0

\* The single item of a payload built by a sink.
OnlyItem(payload) == payload.items.items[1].f

\* amount is 0 and no alias of it holds a non-empty value.
ZeroAmount(d) ==
    /\ Has(d, "amount") /\ d.amount = IntV(0)
    /\ ~Truthy(Get(d, "quantity")) /\ ~Truthy(Get(d, "qty"))

\* A credential the requests need is missing from the configuration.
MissingCredential ==
    \/ ~Truthy(Get(config, "api_key")) /\ ~Truthy(Get(config, "vendit_api_key"))
    \/ /\ ~Truthy(Get(config, "token"))
       /\ ~Truthy(Get(config, "username")) \/ ~Truthy(Get(config, "password"))

(***************************************************************************)
(* C1.  A buy order with n line items of which k resolve a non-empty       *)
(* productId and a non-empty amount emits exactly k payloads, each with    *)
(* one item that carries the creationDatetime and the optiplyId of the     *)
(* order.  The code breaks it: int() of a productId that is not numeric    *)
(* raises in the middle of the loop.                                       *)
(***************************************************************************)
C1_OnePayloadPerResolvedLineItem ==
    SplitEnded =>
        /\ Len(emitted) = Len(Surviving(ListItems(cur.record), 1))
        /\ \A j \in 1..Len(emitted) :
              /\ Len(emitted[j].items.items) = 1
              /\ OnlyItem(emitted[j]).creationDatetime = shared.creation_datetime
              /\ Truthy(shared.optiply_id) =>
                    OnlyItem(emitted[j]).optiplyId = PyStr(shared.optiply_id)

(***************************************************************************)
(* C2.  The submission attempts of a buy order are its surviving line      *)
(* items, in their order, each once, whatever submissions failed before.   *)
(* The code breaks it: a line item that raises ends the loop, and the      *)
(* line items after it are never submitted.                                *)
(***************************************************************************)
C2_AttemptsAreSurvivingLineItems ==
    SplitEnded =>
        [j \in 1..Len(attempts) |-> attempts[j].idx] = Surviving(ListItems(cur.record), 1)

(***************************************************************************)
(* C3.  When the request of a submission fails, upsert_record of either    *)
(* sink returns no id, success false and a non-empty error, and does not   *)
(* raise.  PrePurchaseOrders.upsert_record raises instead.                 *)
(***************************************************************************)
C3_FailedRequestIsReturnedNotRaised ==
    (last.called /\ last.transport.k \in {"exc", "rejected"}) =>
        /\ ~last.res.raised
        /\ last.res.id = NoneV
        /\ ~last.res.success
        /\ last.res.error.t = "str" /\ last.res.error.s # ""

(***************************************************************************)
(* C4.  With a credential missing no request is sent and upsert_record     *)
(* raises: the error never becomes a per-record result.  In                *)
(* BuyOrders.upsert_record the except clause turns it into one.            *)
(***************************************************************************)
C4_MissingCredentialIsFatal ==
    MissingCredential => (sent = 0 /\ (last.called => last.res.raised))

(***************************************************************************)
(* C5.  BuyOrders.process_record never raises because of the content of    *)
(* line_items.  It does, for a line item that is no mapping and for a      *)
(* productId or amount that is not numeric.                                *)
(***************************************************************************)
C5_LineItemsNeverRaise ==
    ~(cur.sink = "BuyOrders" /\ pc = "raised" /\ error.where = "process_record")

(***************************************************************************)
(* C6.  A record is split exactly when its line_items is non-empty; a      *)
(* record with an items collection and no or an empty line_items is        *)
(* submitted unchanged by BuyOrders, and a record with non-empty           *)
(* line_items is never itself submitted.  BuyOrders skips a record with    *)
(* items whose line_items is present but empty.                            *)
(***************************************************************************)
C6_ExactlyOneShape ==
    /\ (cur.sink = "PrePurchaseOrders" /\ Truthy(Get(cur.record, "line_items"))) =>
          emitted = <<>>
    /\ (cur.sink = "BuyOrders" /\ pc # "split") =>
          IF Truthy(Get(cur.record, "line_items"))
          THEN \A j \in 1..Len(emitted) : emitted[j] # cur.record
          ELSE Has(cur.record, "items") => emitted = <<cur.record>>

(***************************************************************************)
(* C7.  As claimed: a direct record whose amount field is 0 is dropped by  *)
(* PrePurchaseOrders (no payload, nothing submitted, nothing raised).  It  *)
(* fails for a record that also holds a non-empty quantity or qty: the     *)
(* alias is taken instead of the 0.                                        *)
(***************************************************************************)
C7_ZeroAmountFieldIsDropped ==
    (/\ cur.sink = "PrePurchaseOrders"
     /\ Has(cur.record, "amount") /\ cur.record.amount = IntV(0)) =>
        (emitted = <<>> /\ attempts = <<>> /\ pc # "raised")

(***************************************************************************)
(* C7, amended.  A direct record whose amount is 0 and whose quantity and  *)
(* qty are absent or empty is dropped by PrePurchaseOrders: no payload,    *)
(* nothing submitted, nothing raised.  A line item of a buy order whose    *)
(* amount is 0 and whose quantity and qty are absent or empty is skipped:  *)
(* nothing is emitted or submitted for it and its turn does not raise.     *)
(***************************************************************************)
C7_ZeroAmountIsDropped ==
    /\ (cur.sink = "PrePurchaseOrders" /\ ZeroAmount(cur.record)) =>
          (emitted = <<>> /\ attempts = <<>> /\ pc # "raised")
    /\ (cur.sink = "BuyOrders" /\ Len(ListItems(cur.record)) > 0) =>
          /\ Len(emitted) = Len(attempts)
          /\ \A j \in 1..Len(attempts) :
                LET li == ListItems(cur.record)[attempts[j].idx]
                IN  ~(li.t = "dict" /\ ZeroAmount(li.f))
          /\ (pc = "raised" /\ error.where = "process_record") =>
                ~(Head(queue).t = "dict" /\ ZeroAmount(Head(queue).f))

\* A record with a productId and amount 0 was dropped by PrePurchaseOrders.
C7_Witness ==
    /\ cur.sink = "PrePurchaseOrders"
    /\ ZeroAmount(cur.record)
    /\ Truthy(FirstOf(cur.record, ProductIdKeys))
    /\ ~Truthy(Get(cur.record, "line_items"))
    /\ pc = "idle" /\ emitted = <<>> /\ attempts = <<>>

(***************************************************************************)
(* C8.  Every item a sink builds has an integer productId, an integer      *)
(* amount and a creationDatetime that is a canonical text, whatever the    *)
(* source value.  A number given as creationDatetime is passed on as it    *)
(* is.                                                                     *)
(***************************************************************************)
BuiltHere ==
    \/ cur.sink = "PrePurchaseOrders"
    \/ cur.sink = "BuyOrders" /\ Classify(cur.record).k = "split"

C8_BuiltItemsAreCanonical ==
    BuiltHere =>
        \A j \in 1..Len(emitted) :
            /\ OnlyItem(emitted[j]).productId.t = "int"
            /\ OnlyItem(emitted[j]).amount.t = "int"
            /\ Has(OnlyItem(emitted[j]), "creationDatetime")
            /\ IsCanonical(OnlyItem(emitted[j]).creationDatetime)

(***************************************************************************)
(* C9.  An optional descriptive field of the source record or line item    *)
(* is in the built item, unchanged.  The sinks build the item from the     *)
(* productId, the amount, the creationDatetime and the ids alone.          *)
(***************************************************************************)
C9_DescriptiveFieldsPassThrough ==
    /\ (cur.sink = "PrePurchaseOrders" /\ Has(cur.record, "orderReference")) =>
          \A j \in 1..Len(emitted) :
              /\ Has(OnlyItem(emitted[j]), "orderReference")
              /\ OnlyItem(emitted[j]).orderReference = cur.record.orderReference
    /\ (cur.sink = "BuyOrders" /\ Len(ListItems(cur.record)) > 0) =>
          \A j \in 1..Len(attempts) :
              LET li == ListItems(cur.record)[attempts[j].idx]
              IN  (li.t = "dict" /\ Has(li.f, "orderReference")) =>
                     /\ Has(OnlyItem(emitted[j]), "orderReference")
                     /\ OnlyItem(emitted[j]).orderReference = li.f.orderReference

(***************************************************************************)
(* C10.  As claimed: on a response that passes, upsert_record returns the  *)
(* top-level id of the body when the body has one, otherwise the           *)
(* optiplyId of the first item of the payload.  It fails for a body whose  *)
(* id is 0 and for a status other than 200, 201 and 204.                   *)
(***************************************************************************)
FirstItemId(record) ==
    IF Has(record, "items") /\ Len(record.items.items) > 0
    THEN Get(record.items.items[1].f, "optiplyId")
    ELSE NoneV

BodyHasId(body) == body.t = "dict" /\ Has(body.f, "id")

C10_IdOfBodyElseOptiplyId ==
    (last.called /\ last.transport.k = "resp") =>
        /\ ~last.res.raised
        /\ last.res.id = IF BodyHasId(last.transport.body)
                         THEN last.transport.body.f.id
                         ELSE FirstItemId(last.record)

(***************************************************************************)
(* C10, amended.  On a response with status 200, 201 or 204 upsert_record  *)
(* returns the top-level id of the body when the body is a mapping with a  *)
(* non-empty id; when that id is missing or empty and the payload has a    *)
(* first item, the optiplyId of that item (none when it has none).  On a   *)
(* response with another status that passes it returns no id.  In every    *)
(* case the result is a success without an error.                          *)
(***************************************************************************)
C10_IdOfResponse ==
    (last.called /\ last.transport.k = "resp") =>
        /\ ~last.res.raised
        /\ last.res.success
        /\ last.res.error = NoneV
        /\ last.res.id =
             IF last.transport.status \notin {200, 201, 204} THEN NoneV
             ELSE IF BodyHasId(last.transport.body) /\ Truthy(last.transport.body.f.id)
             THEN last.transport.body.f.id
             ELSE IF Has(last.record, "items") /\ Len(last.record.items.items) > 0
             THEN FirstItemId(last.record)
             ELSE IF BodyHasId(last.transport.body) THEN last.transport.body.f.id
             ELSE NoneV

\* A response without an id was answered with the optiplyId of the first item.
C10_Witness ==
    /\ last.called /\ last.transport.k = "resp"
    /\ last.transport.status = 201
    /\ ~BodyHasId(last.transport.body)
    /\ last.res.id = StrV("ORD-1")
    /\ FirstItemId(last.record) = StrV("ORD-1")

(***************************************************************************)
(* C11.  Normalising an accepted value gives a text of the form            *)
(* YYYY-MM-DDTHH:MM:SS.mmmZ, and normalising that text again gives the     *)
(* same text.  The code breaks it for a time with a zone that lies, in     *)
(* UTC, before datetime.min: astimezone raises OverflowError, which the    *)
(* except clause of line 68 does not catch.                                *)
(***************************************************************************)
C11_NormalizeIsIdempotent ==
    /\ ~norm.raised
    /\ \A i \in 1..Len(norm.out) :
          /\ IsCanonical(norm.out[i])
          /\ norm.out[i] = norm.out[1]

\* The same for the values whose time in UTC is within the range of datetime.
C11_InRange ==
    (norm.x.t = "datetime" => ~OutOfRange(norm.x)) /\
    (IsIso(norm.x) /\ FromIsoformat(ReplaceZ(norm.x)).ok =>
        ~OutOfRange(FromIsoformat(ReplaceZ(norm.x)).v))
    => C11_NormalizeIsIdempotent

(***************************************************************************)
(* C12.  Every field of a built item is the first non-empty value over the *)
(* ordered aliases of the field (productId, product_id, product_remoteId;  *)
(* amount, quantity, qty; creationDatetime, creation_datetime,             *)
(* transaction_date, created_at; optiplyId, optiply_id, id), made an       *)
(* integer, a normalised datetime or a text; and the buy order with        *)
(* line_items '[{"product_remoteId": 42, "quantity": 3}]', a               *)
(* transaction_date and id 'ORD-1', with no default office id configured,  *)
(* gives exactly one payload whose single item has exactly productId 42,   *)
(* amount 3, the creationDatetime in UTC and optiplyId 'ORD-1'.            *)
(***************************************************************************)
\* The first non-empty value of d over the aliases ks, None when there is none.
FirstNonEmpty(d, ks) ==
    IF \E i \in 1..Len(ks) : Truthy(Get(d, ks[i]))
    THEN Get(d, ks[CHOOSE i \in 1..Len(ks) :
                     /\ Truthy(Get(d, ks[i]))
                     /\ \A h \in 1..(i - 1) : ~Truthy(Get(d, ks[h]))])
    ELSE NoneV

\* What the j-th payload of cur was built from: the record itself, or the
\* line item of the buy order.
SourceOf(j) ==
    IF cur.sink = "PrePurchaseOrders" THEN cur.record
    ELSE Classify(cur.record).items[attempts[j].idx].f

ExampleItem ==
    [productId |-> IntV(42), amount |-> IntV(3),
     creationDatetime |-> IsoStr(41751885, 0, 3, "T", "Z", FALSE),
     optiplyId |-> StrV("ORD-1")]

C12_FirstNonEmptyAlias ==
    /\ BuiltHere =>
          \A j \in 1..Len(emitted) :
            LET item == OnlyItem(emitted[j])
                pid == FirstNonEmpty(SourceOf(j), <<"productId", "product_id", "product_remoteId">>)
                amt == FirstNonEmpty(SourceOf(j), <<"amount", "quantity", "qty">>)
                dtm == FirstNonEmpty(cur.record, <<"creationDatetime", "creation_datetime",
                                                   "transaction_date", "created_at">>)
                oid == FirstNonEmpty(cur.record, <<"optiplyId", "optiply_id", "id">>)
            IN  /\ item.productId = IntV(PyInt(pid).v)
                /\ item.amount = IntV(PyInt(amt).v)
                /\ \E now \in NowSet :
                      item.creationDatetime = NormalizeDatetime(dtm, now).v
                /\ IF Truthy(oid)
                   THEN /\ Has(item, "optiplyId")
                        /\ item.optiplyId.t = "str"
                        /\ item.optiplyId = PyStr(oid)
                   ELSE ~Has(item, "optiplyId")
    /\ (/\ cur.sink = "BuyOrders" /\ cur.record = ExampleRecord /\ pc = "idle"
        /\ ~Has(config, "default_export_buyOrder_warehouseId")) =>
          /\ Len(attempts) = 1
          /\ emitted = <<[items |-> ListV(<<DictV(ExampleItem)>>)]>>

\* The buy order of the example was split into its one payload.
C12_Witness ==
    /\ cur.sink = "BuyOrders" /\ cur.record = ExampleRecord /\ pc = "idle"
    /\ ~Has(config, "default_export_buyOrder_warehouseId")
    /\ Len(emitted) = 1 /\ Len(attempts) = 1
    /\ OnlyItem(emitted[1]).productId = IntV(42)
    /\ OnlyItem(emitted[1]).optiplyId = StrV("ORD-1")

C14_LazyAndCached ==
    /\ posted = Cardinality({j \in 1..Len(calls) : calls[j].posted})
    /\ \A i, j \in 1..Len(calls) :
          (i <= j /\ calls[i].sink = calls[j].sink /\ calls[i].has) =>
              /\ i < j => ~calls[j].posted
              /\ (calls[i].ok /\ calls[j].ok) => calls[i].v = calls[j].v

\* A token was fetched by the first call; the two calls after it on the same
\* authenticator made no token request and returned the same headers.
C14_Witness ==
    /\ Len(calls) = 3
    /\ \A j \in 1..3 : calls[j].sink = "BuyOrders" /\ calls[j].ok
    /\ calls[1].posted /\ calls[1].v.Token = StrV("T1")
    /\ ~calls[2].posted /\ ~calls[3].posted
    /\ calls[3].v = calls[1].v
    /\ posted = 1

(***************************************************************************)
(* C15.  Every call of get_headers that returns gives a non-empty Token    *)
(* and a non-empty ApiKey, whatever calls came before and whatever the     *)
(* configured token is.  The code breaks it: the token and the api key are *)
(* stored before they are checked, so after a call that raised on an       *)
(* empty value the next call returns that empty value.                     *)
(***************************************************************************)
C15_HeadersAreNonEmpty ==
    \A j \in 1..Len(calls) :
        calls[j].ok => (Truthy(calls[j].v.Token) /\ Truthy(calls[j].v.ApiKey))

\* The same when the token endpoint answers with a failure or a non-empty
\* token only: the empty value comes from the configuration.
C15_WithProperEndpoint ==
    (\A j \in 1..Len(calls) : calls[j].posted /\ calls[j].ok => Truthy(calls[j].v.Token))
    => C15_HeadersAreNonEmpty

=============================================================================
